---- MODULE Spec2Model ----
(***************************************************************************)
(* Model of app/main.py of photo-book-curator: the index job coordinator   *)
(* (start_indexing, _run_index_in_background), the reconciliation run      *)
(* (index_photos) over a photo root and an SQLite catalog, and the book   *)
(* endpoints (listing, selection, completion, export) that share the       *)
(* catalog with a running index.                                           *)
(*                                                                         *)
(* The photo root is one flat directory.  A file is a record of what       *)
(* stat() and the EXIF reader return for it; NoFile stands for an absent   *)
(* path.  Timestamps of the job state are abstracted to None / Now.        *)
(* The catalog is the committed content of the photos / selections         *)
(* tables; a run that has written and not yet committed holds its own      *)
(* view (tphotos, tsel) and the database write lock.                       *)
(***************************************************************************)
EXTENDS Integers, Sequences, FiniteSets, TLC

\* ---------------------------------------------------------------- bounds
MaxThreads == 2      \* execution-unit slots (a second one is only ever used if single-flight breaks)
NCallers == 2        \* concurrent callers of start_indexing
MaxFsEvents == 1     \* changes of the tree in one behaviour
MaxCreates == 3      \* files ever created (bounds the row ids: each insert needs a created file)
MaxFaults == 1       \* injected failures in one behaviour (an exception, a failed thumbnail or unlink)
MaxMtime == 2        \* mtimes are 1..MaxMtime
MaxSize == 2         \* sizes are 1..MaxSize
MaxOffset == 2       \* offsets of a listing request are 0..MaxOffset
MaxLimit == 2        \* limits of a listing request are 1..MaxLimit
MaxTmp == 1          \* temporary export files that exist at a time

\* INDEX_BATCH_SIZE is 50 in the source; it is scaled to 2 so that batch
\* boundaries fall inside the bounded tree.
INDEX_BATCH_SIZE == 2

\* ---------------------------------------------------------------- data
None == "None"
Now == "ts"
NoFile == [present |-> FALSE]

\* the paths of a small tree
SmallPaths == {"a.jpg", "b.PNG", "n.txt"}
\* with two more pictures a backlog can be longer than a batch
Paths == SmallPaths \cup {"c.jpeg", "d.heic"}
Threads == 1..MaxThreads
Callers == 1..NCallers
Ids == 1..MaxCreates
Mtimes == 1..MaxMtime
Sizes == 1..MaxSize
\* capture dates are day numbers; an mtime m falls on day m
ExifDates == {0, 3}     \* 0: the file carries no DateTimeOriginal
\* the pictures written to b.PNG carry a DateTimeOriginal, the others do not
ExifOf(p) == IF p = "b.PNG" THEN 3 ELSE 0

Suffix(p) ==
    CASE p = "a.jpg" -> ".jpg" [] p = "b.PNG" -> ".PNG" [] p = "c.jpeg" -> ".jpeg"
      [] p = "d.heic" -> ".heic" [] OTHER -> ".txt"
Lower(s) == CASE s = ".PNG" -> ".png" [] OTHER -> s
SUPPORTED_EXT == {".jpg", ".jpeg", ".png", ".heic"}
\* faulty variant: the extension is compared as it is written
SupportedAsWritten(p) == Suffix(p) \in SUPPORTED_EXT
\* lines 290-292: ext = Path(name).suffix.lower(); ext in SUPPORTED_EXT
Supported(p) == Lower(Suffix(p)) \in SUPPORTED_EXT
\* the paths the tree's changes are about; the other file only lies there
Pictures == {p \in SmallPaths : Supported(p)}

File(m, s, e, ok) == [present |-> TRUE, mtime |-> m, size |-> s, exif |-> e, ok |-> ok]
Files == {NoFile} \cup {File(m, s, e, ok) : m \in Mtimes, s \in Sizes, e \in ExifDates, ok \in BOOLEAN}

Max(S) == IF S = {} THEN 0 ELSE CHOOSE x \in S : \A y \in S : y <= x
Min(S) == CHOOSE x \in S : \A y \in S : x <= y

VARIABLES
    rootExists,     \* PHOTO_ROOT.exists()
    fs,             \* the files of the photo root: Paths -> Files
    thumbs,         \* THUMB_DIR: the thumbnail files, [id, path, mtime, size] of the source they were made from
    photos,         \* committed rows of table photos
    selections,     \* committed rows of table selections
    books,          \* rows of table books
    index_state,    \* _index_state (every access is under _index_lock)
    callers,        \* callers of start_indexing: where each is, and what its last call returned
    thr,            \* the execution units: locals of index_photos per thread slot
    req,            \* the selection or export request in flight
    resp,           \* the response last returned by a book endpoint
    tmp,            \* DATA_DIR: the number of export_*.zip files
    fsEvents,       \* history: changes of the tree so far
    creates,        \* history: files created so far
    faults,         \* history: failures injected so far
    dirty,          \* history: the tree changed since the current / last run began
    cleanRuns       \* history: consecutive completed runs with no change of the tree since the first began

vars == <<rootExists, fs, thumbs, photos, selections, books, index_state, callers, thr,
          req, resp, tmp, fsEvents, creates, faults, dirty, cleanRuns>>


\* ---------------------------------------------------------------- helpers
\* what the code finds at a path: nothing when the root itself is gone
At(p) == IF rootExists THEN fs[p] ELSE NoFile

\* full.stat() succeeds (lines 298-304)
StatOk(f) == f.present /\ f.ok

\* an mtime m (a timestamp) falls on day m: datetime.fromtimestamp
DateOfMtime(m) == m

\* get_date_taken: the EXIF DateTimeOriginal when the file carries one, else
\* the day of the file's mtime
get_date_taken(f) == IF f.exif # 0 THEN f.exif ELSE DateOfMtime(f.mtime)

\* a row of table photos; thumb = 0 is thumbnail_path = '', otherwise the
\* id whose file THUMB_DIR/<id>.jpg the path names
Row(i, p, d, t, m, s) == [id |-> i, path |-> p, date |-> d, thumb |-> t, mtime |-> m, size |-> s]

PathsOf(rows) == {r.path : r \in rows}
IdsOf(rows) == {r.id : r \in rows}
RowAt(rows, p) == CHOOSE r \in rows : r.path = p

\* INTEGER PRIMARY KEY without AUTOINCREMENT: the largest rowid plus one
NextId(rows) == Max(IdsOf(rows)) + 1

\* faulty variant: the size is not compared
ChangedMtimeOnly(force, row, m, s) == force \/ row.mtime # m
\* faulty variant: the stored columns are compared with the wrong values
ChangedCrossed(force, row, m, s) == force \/ row.mtime # s \/ row.size # m
\* line 327: changed = force or mtime differs or size differs
Changed(force, row, m, s) == force \/ row.mtime # m \/ row.size # s

\* faulty variant: the test looks for a state the job never has
IsStarted(st) == st.state = "started"
\* line 442: the single-flight test of start_indexing
IsRunning(st) == st.state = "running"

\* faulty variant: the root is not tested
RootNeverMissing == FALSE
\* line 253: if not PHOTO_ROOT.exists()
RootMissing == ~rootExists

\* faulty variant: only the state and the start time are set, the counters
\* and the finish time of the run before stay
RunningStale == [index_state EXCEPT !.state = "running", !.started_at = Now]
\* lines 445-457: the reset of _index_state by an accepted start
RunningState ==
    [state |-> "running", started_at |-> Now, finished_at |-> None, indexed |-> 0,
     new |-> 0, updated |-> 0, removed |-> 0, errors |-> 0, message |-> "Indexing..."]

\* lines 47-57
IdleState ==
    [state |-> "idle", started_at |-> None, finished_at |-> None, indexed |-> 0,
     new |-> 0, updated |-> 0, removed |-> 0, errors |-> 0, message |-> ""]

\* a thread slot with no thread in it
NoThread ==
    [pc |-> "unborn", force |-> FALSE, existing |-> {}, todo |-> {}, seen |-> {},
     new |-> 0, updated |-> 0, indexed |-> 0, errors |-> 0, pending |-> 0, removed |-> 0,
     rows |-> {}, thumb_done |-> 0, inTxn |-> FALSE, tphotos |-> {}, tsel |-> {},
     walked |-> FALSE, walkWrote |-> {}, thumbWrote |-> {}, uncommitted |-> 0]

\* the tables as thread t's connection sees them: its own uncommitted writes included
ViewPhotos(t) == IF thr[t].inTxn THEN thr[t].tphotos ELSE photos
ViewSel(t) == IF thr[t].inTxn THEN thr[t].tsel ELSE selections

\* SQLite lets one connection write at a time
WriteLockFree(t) == \A u \in Threads \ {t} : ~thr[u].inTxn

Active(t) == thr[t].pc \notin {"unborn", "done"}

Clamp2(n) == IF n > 2 THEN 2 ELSE n


\* ---------------------------------------------------------------- coordinator
\* start_indexing, lines 441-457: the test and the reset are one step under
\* _index_lock.  A rejected call returns False at once; an accepted one goes
\* on to create the thread.
StartTAS(c, force) ==
    /\ callers[c].pc = "ready"
    /\ IF IsRunning(index_state)
       THEN /\ callers' = [callers EXCEPT ![c].ret = "not_started"]
            /\ UNCHANGED index_state
       ELSE /\ index_state' = RunningState
            /\ callers' = [callers EXCEPT ![c] = [pc |-> "launch", force |-> force, ret |-> "none"]]
    /\ UNCHANGED <<rootExists, fs, thumbs, photos, selections, books, thr, req, resp, tmp,
                   fsEvents, creates, faults, dirty, cleanRuns>>

\* the slots of finished threads are free again
Recycled == [t \in Threads |-> IF thr[t].pc = "done" THEN NoThread ELSE thr[t]]
FreeSlots == {t \in Threads : Recycled[t].pc = "unborn"}

\* start_indexing, lines 459-465: thread.start() and return True
StartLaunch(c) ==
    /\ callers[c].pc = "launch"
    /\ FreeSlots # {}
    /\ thr' = [Recycled EXCEPT ![Min(FreeSlots)] =
                  [NoThread EXCEPT !.pc = "begin", !.force = callers[c].force]]
    /\ callers' = [callers EXCEPT ![c] = [pc |-> "ready", force |-> FALSE, ret |-> "started"]]
    /\ UNCHANGED <<rootExists, fs, thumbs, photos, selections, books, index_state, req, resp, tmp,
                   fsEvents, creates, faults, dirty, cleanRuns>>

\* ---------------------------------------------------------------- the run
\* the locals of a thread whose connection is dropped with its transaction open
RolledBack(L) == [L EXCEPT !.pc = "done", !.inTxn = FALSE, !.tphotos = {}, !.tsel = {},
                           !.uncommitted = 0]

\* faulty variant: the handler only records the message
FailedMessageOnly(st) == [st EXCEPT !.message = "Index failed"]
\* faulty variant: the handler sets no finish timestamp
FailedUnstamped(st) == [st EXCEPT !.state = "error", !.message = "Index failed"]
\* faulty variant: the handler also clears the counters
FailedZeroed(st) ==
    [st EXCEPT !.state = "error", !.finished_at = Now, !.message = "Index failed",
               !.indexed = 0, !.new = 0, !.updated = 0, !.removed = 0, !.errors = 0]
\* _run_index_in_background, lines 432-437: the handler of an exception that
\* leaves index_photos
Failed(st) == [st EXCEPT !.state = "error", !.finished_at = Now, !.message = "Index failed"]

\* lines 253-266: the root test, then the load of the existing rows
W_Begin(t) ==
    /\ thr[t].pc = "begin"
    /\ IF RootMissing
       THEN /\ index_state' = [index_state EXCEPT !.state = "error", !.finished_at = Now,
                                                  !.message = "PHOTO_ROOT does not exist"]
            /\ thr' = [thr EXCEPT ![t].pc = "done"]
            /\ cleanRuns' = 0
       ELSE /\ thr' = [thr EXCEPT ![t].pc = "list", ![t].existing = photos]
            /\ UNCHANGED <<index_state, cleanRuns>>
    /\ dirty' = FALSE
    /\ UNCHANGED <<rootExists, fs, thumbs, photos, selections, books, callers, req, resp, tmp,
                   fsEvents, creates, faults>>

\* line 288: os.walk lists the directory (nothing, when the root has gone
\* meanwhile).  The extension filter of lines 290-292 is applied here: the
\* loop does nothing else with an unsupported name.
W_List(t) ==
    /\ thr[t].pc = "list"
    /\ thr' = [thr EXCEPT ![t].pc = "walk", ![t].walked = TRUE,
                          ![t].todo = {p \in Paths : At(p).present /\ Supported(p)}]
    /\ UNCHANGED <<rootExists, fs, thumbs, photos, selections, books, index_state, callers,
                   req, resp, tmp, fsEvents, creates, faults, dirty, cleanRuns>>

\* _flush_batch, lines 275-286, on locals L whose connection sees vp / vs
Flush(t, L, vp, vs) ==
    IF L.pending > 0
    THEN /\ photos' = vp
         /\ selections' = vs
         /\ index_state' = [index_state EXCEPT !.indexed = L.indexed, !.new = L.new,
                                               !.updated = L.updated, !.errors = L.errors,
                                               !.message = "Indexing... processed"]
         /\ thr' = [thr EXCEPT ![t] = [L EXCEPT !.pending = 0, !.inTxn = FALSE, !.tphotos = {},
                                                !.tsel = {}, !.uncommitted = 0]]
    ELSE /\ thr' = [thr EXCEPT ![t] = L]
         /\ UNCHANGED <<photos, selections, index_state>>

\* lines 320-325 and 354-358: after a write of the walk, flush a full batch
AfterWrite(t, L, vp, vs) ==
    IF L.pending >= INDEX_BATCH_SIZE
    THEN Flush(t, L, vp, vs)
    ELSE /\ thr' = [thr EXCEPT ![t] = [L EXCEPT !.inTxn = TRUE, !.tphotos = vp, !.tsel = vs]]
         /\ UNCHANGED <<photos, selections, index_state>>

\* faulty variant: an update is not counted as updated
CountedInsertsOnly(L, isNew) ==
    [L EXCEPT !.new = IF isNew THEN @ + 1 ELSE @, !.indexed = @ + 1, !.pending = @ + 1]
\* lines 320-322 / 354-356: the counters after an insert (isNew) or an update
Counted(L, isNew) ==
    [L EXCEPT !.new = IF isNew THEN @ + 1 ELSE @,
              !.updated = IF isNew THEN @ ELSE @ + 1,
              !.indexed = @ + 1, !.pending = @ + 1]

\* lines 313-319 / 346-353: the INSERT or UPDATE of the row with this id is
\* executed on the connection (history: the rows the walk wrote)
Wrote(L, id) == [L EXCEPT !.walkWrote = @ \cup {id}, !.uncommitted = @ + 1]

\* faulty variant: the path is recorded as seen after its stat succeeded
ObservedIfStatted(L, p) ==
    [L EXCEPT !.todo = @ \ {p}, !.seen = IF StatOk(At(p)) THEN @ \cup {p} ELSE @]
\* lines 293-296: the next file name of the walk; its path is recorded as
\* seen before the stat
Observed(L, p) == [L EXCEPT !.todo = @ \ {p}, !.seen = @ \cup {p}]

\* lines 289-358: one file of the walk
W_File(t, p) ==
    /\ thr[t].pc = "walk"
    /\ p \in thr[t].todo
    /\ LET L == Observed(thr[t], p)
           f == At(p)
           vp == ViewPhotos(t)
           vs == ViewSel(t)
           known == p \in PathsOf(L.existing)
       IN  IF ~StatOk(f)
           THEN \* lines 302-304
                /\ thr' = [thr EXCEPT ![t] = [L EXCEPT !.errors = @ + 1]]
                /\ UNCHANGED <<photos, selections, index_state, thumbs, cleanRuns, faults>>
           ELSE IF ~known
           THEN \* lines 307-325
                /\ WriteLockFree(t)
                /\ IF p \in PathsOf(vp)
                   THEN \* file_path is UNIQUE: the INSERT raises
                        /\ thr' = [thr EXCEPT ![t] = RolledBack(L)]
                        /\ index_state' = Failed(index_state)
                        /\ cleanRuns' = 0
                        /\ UNCHANGED <<photos, selections, thumbs, faults>>
                   ELSE /\ AfterWrite(t, Counted(Wrote(L, NextId(vp)), TRUE),
                                      vp \cup {Row(NextId(vp), p, get_date_taken(f), 0, f.mtime, f.size)},
                                      vs)
                        /\ UNCHANGED <<thumbs, cleanRuns, faults>>
           ELSE IF Changed(L.force, RowAt(L.existing, p), f.mtime, f.size)
           THEN \* lines 331-358
                LET er == RowAt(L.existing, p)
                    old == {th \in thumbs : er.thumb # 0 /\ th.id = er.thumb}
                    upd(r) == IF r.id = er.id
                              THEN Row(r.id, r.path, get_date_taken(f), 0, f.mtime, f.size)
                              ELSE r
                IN  /\ WriteLockFree(t)
                    \* unlink of the old thumbnail is best effort
                    /\ \E gone \in IF old = {} \/ faults >= MaxFaults THEN {TRUE} ELSE BOOLEAN :
                          /\ thumbs' = IF gone THEN thumbs \ old ELSE thumbs
                          /\ faults' = IF gone THEN faults ELSE faults + 1
                    /\ AfterWrite(t, Counted(Wrote(L, er.id), FALSE), {upd(r) : r \in vp}, vs)
                    /\ UNCHANGED cleanRuns
           ELSE /\ thr' = [thr EXCEPT ![t] = L]
                /\ UNCHANGED <<photos, selections, index_state, thumbs, cleanRuns, faults>>
    /\ UNCHANGED <<rootExists, fs, books, callers, req, resp, tmp, fsEvents, creates, dirty>>

\* line 360: the flush that ends the walk
W_Flush(t) ==
    /\ thr[t].pc = "walk"
    /\ thr[t].todo = {}
    /\ Flush(t, [thr[t] EXCEPT !.pc = "remove"], ViewPhotos(t), ViewSel(t))
    /\ UNCHANGED <<rootExists, fs, thumbs, books, callers, req, resp, tmp, fsEvents, creates, faults, dirty,
                   cleanRuns>>


\* Path.exists(): False for an absent path and for one whose stat fails with
\* ENOENT (a dangling link is listed by os.walk and cannot be stat'ed)
Exists(f) == StatOk(f)

\* lines 362-390: the removal of the rows whose path was not seen, its
\* commit, and the SELECT of the rows that wait for a thumbnail
W_Remove(t) ==
    /\ thr[t].pc = "remove"
    /\ LET L == thr[t]
           missing_paths == {q \in PathsOf(L.existing) : q \notin L.seen}
           vp == ViewPhotos(t)
           vs == ViewSel(t)
           rows == {r \in vp : r.path \in missing_paths}
           files == {th \in thumbs : \E r \in rows : r.thumb # 0 /\ th.id = r.thumb}
           vp2 == IF missing_paths = {} THEN vp ELSE vp \ rows
           vs2 == IF missing_paths = {} THEN vs ELSE {x \in vs : x.photo \notin IdsOf(rows)}
       IN  /\ missing_paths # {} => WriteLockFree(t)
           \* unlink of each thumbnail is best effort
           /\ \E kept \in {k \in SUBSET files : faults + Cardinality(k) <= MaxFaults} :
                 /\ thumbs' = thumbs \ (files \ kept)
                 /\ faults' = faults + Cardinality(kept)
           /\ photos' = vp2
           /\ selections' = vs2
           /\ thr' = [thr EXCEPT ![t] =
                        [L EXCEPT !.pc = "thumb", !.removed = Cardinality(missing_paths),
                                  !.inTxn = FALSE, !.tphotos = {}, !.tsel = {}, !.uncommitted = 0,
                                  !.rows = {[id |-> r.id, path |-> r.path] : r \in {x \in vp2 : x.thumb = 0}}]]
    /\ UNCHANGED <<rootExists, fs, books, index_state, callers, req, resp, tmp, fsEvents, creates, dirty,
                   cleanRuns>>

\* faulty variant: the path is returned and no file is written
make_thumb_unwritten(files, id, p, f) == files
\* make_thumb, lines 242-249, on the thumbnail files: the file of this id is
\* returned as it is when there is one, and written from the source otherwise
make_thumb(files, id, p, f) ==
    IF \E th \in files : th.id = id THEN files
    ELSE files \cup {[id |-> id, path |-> p, mtime |-> f.mtime, size |-> f.size]}

\* the commit of lines 408-412 on locals L whose connection sees vp / vs
ThumbCommit(t, L, vp, vs) ==
    IF L.thumb_done % INDEX_BATCH_SIZE = 0
    THEN /\ photos' = vp
         /\ selections' = vs
         /\ index_state' = [index_state EXCEPT !.message = "Generating thumbnails..."]
         /\ thr' = [thr EXCEPT ![t] = [L EXCEPT !.inTxn = FALSE, !.tphotos = {}, !.tsel = {},
                                                !.uncommitted = 0]]
    ELSE /\ thr' = [thr EXCEPT ![t] = L]
         /\ UNCHANGED <<photos, selections, index_state>>

\* lines 394-412: one row of the thumbnail backfill, in rowid order.
\* make_thumb (lines 242-249) returns the file of this id when there is one
\* and writes it otherwise; it, or the UPDATE, may raise, which is counted.
W_Thumb(t) ==
    /\ thr[t].pc = "thumb"
    /\ thr[t].rows # {}
    /\ LET row == CHOOSE r \in thr[t].rows : r.id = Min(IdsOf(thr[t].rows))
           L == [thr[t] EXCEPT !.rows = @ \ {row}, !.thumb_done = @ + 1]
           f == At(row.path)
           vp == ViewPhotos(t)
           vs == ViewSel(t)
           upd(r) == IF r.id = row.id THEN [r EXCEPT !.thumb = row.id] ELSE r
       IN  IF ~Exists(f)
           THEN \* lines 396-398: skipped, and the commit test with it
                /\ thr' = [thr EXCEPT ![t] = L]
                /\ UNCHANGED <<photos, selections, index_state, thumbs, faults>>
           ELSE \E ok \in IF faults >= MaxFaults THEN {TRUE} ELSE BOOLEAN :
                  IF ok
                  THEN /\ WriteLockFree(t)
                       /\ faults' = faults
                       /\ thumbs' = make_thumb(thumbs, row.id, row.path, f)
                       /\ ThumbCommit(t, [L EXCEPT !.inTxn = TRUE, !.tphotos = {upd(r) : r \in vp},
                                                   !.tsel = vs, !.uncommitted = @ + 1,
                                                   !.thumbWrote = @ \cup {row.id}],
                                      {upd(r) : r \in vp}, vs)
                  ELSE /\ thumbs' = thumbs
                       /\ faults' = faults + 1
                       /\ ThumbCommit(t, [L EXCEPT !.errors = @ + 1], vp, vs)
    /\ UNCHANGED <<rootExists, fs, books, callers, req, resp, tmp, fsEvents, creates, dirty, cleanRuns>>

\* faulty variant: a run that went through puts the job back to idle
CompletedToIdle(st, L) ==
    [st EXCEPT !.state = "idle", !.finished_at = Now, !.indexed = L.indexed,
               !.new = L.new, !.updated = L.updated, !.removed = L.removed,
               !.errors = L.errors, !.message = "Index complete"]
\* lines 417-426: the final state of a run that went through
Completed(st, L) ==
    [st EXCEPT !.state = "complete", !.finished_at = Now, !.indexed = L.indexed,
               !.new = L.new, !.updated = L.updated, !.removed = L.removed,
               !.errors = L.errors, !.message = "Index complete"]

\* lines 414-426: the last commit and the final state
W_Finish(t) ==
    /\ thr[t].pc = "thumb"
    /\ thr[t].rows = {}
    /\ photos' = ViewPhotos(t)
    /\ selections' = ViewSel(t)
    /\ index_state' = Completed(index_state, thr[t])
    /\ thr' = [thr EXCEPT ![t] = [thr[t] EXCEPT !.pc = "done", !.inTxn = FALSE, !.tphotos = {},
                                                !.tsel = {}, !.uncommitted = 0]]
    /\ cleanRuns' = IF dirty THEN 0 ELSE Clamp2(cleanRuns + 1)
    /\ UNCHANGED <<rootExists, fs, thumbs, books, callers, req, resp, tmp, fsEvents, creates, faults, dirty>>

\* an exception that leaves index_photos (a failing statement or commit of
\* the connection, a failing listing): the transaction is dropped with the
\* connection, and _run_index_in_background reports the error
W_Raise(t) ==
    /\ thr[t].pc \in {"begin", "list", "walk", "remove", "thumb"}
    /\ faults < MaxFaults
    /\ faults' = faults + 1
    /\ thr' = [thr EXCEPT ![t] = RolledBack(thr[t])]
    /\ index_state' = Failed(index_state)
    /\ cleanRuns' = 0
    /\ UNCHANGED <<rootExists, fs, thumbs, photos, selections, books, callers, req, resp, tmp, fsEvents,
                   creates, dirty>>

\* ---------------------------------------------------------------- the tree
TreeChanged ==
    /\ fsEvents < MaxFsEvents
    /\ fsEvents' = fsEvents + 1
    /\ dirty' = TRUE
    /\ cleanRuns' = 0

\* a file is written at p
FsCreate(p) ==
    /\ fs[p] = NoFile
    /\ creates < MaxCreates
    /\ TreeChanged
    /\ fs' = [fs EXCEPT ![p] = File(1, 1, ExifOf(p), TRUE)]
    /\ creates' = creates + 1
    /\ UNCHANGED <<rootExists, thumbs, photos, selections, books, index_state, callers, thr, req, resp, tmp,
                   faults>>

FsDelete(p) ==
    /\ fs[p] # NoFile
    /\ TreeChanged
    /\ fs' = [fs EXCEPT ![p] = NoFile]
    /\ UNCHANGED <<rootExists, thumbs, photos, selections, books, index_state, callers, thr,
                   req, resp, tmp, creates, faults>>

\* the file's modification time changes, its size does not
FsTouch(p) ==
    /\ fs[p] # NoFile
    /\ TreeChanged
    /\ fs' = [fs EXCEPT ![p].mtime = (@ % MaxMtime) + 1]
    /\ UNCHANGED <<rootExists, thumbs, photos, selections, books, index_state, callers, thr,
                   req, resp, tmp, creates, faults>>

\* the file's size changes, its modification time does not
FsResize(p) ==
    /\ fs[p] # NoFile
    /\ TreeChanged
    /\ fs' = [fs EXCEPT ![p].size = (@ % MaxSize) + 1]
    /\ UNCHANGED <<rootExists, thumbs, photos, selections, books, index_state, callers, thr,
                   req, resp, tmp, creates, faults>>

\* the file becomes impossible, or possible again, to stat
FsBreak(p) ==
    /\ fs[p] # NoFile
    /\ TreeChanged
    /\ fs' = [fs EXCEPT ![p].ok = ~@]
    /\ UNCHANGED <<rootExists, thumbs, photos, selections, books, index_state, callers, thr,
                   req, resp, tmp, creates, faults>>

\* the root directory goes away (an unmounted volume) or comes back
RootToggle ==
    /\ TreeChanged
    /\ rootExists' = ~rootExists
    /\ UNCHANGED <<fs, thumbs, photos, selections, books, index_state, callers, thr, req, resp, tmp,
                   creates, faults>>


\* ---------------------------------------------------------------- books
\* entries of the books configuration: ok stands for an object that has all
\* the required fields and whose month and dates parse
Entry(i, m, s, e, ok) == [id |-> i, month |-> m, start_date |-> s, end_date |-> e, ok |-> ok]

\* the configurations a start of the process may find
BookConfigs ==
    { << Entry("b1", 1, 1, 1, TRUE), Entry("b2", 2, 1, 3, TRUE) >>,
      << Entry("b1", 1, 2, 3, TRUE), Entry("b1", 1, 1, 1, TRUE) >>,
      << Entry("b1", 1, 2, 1, TRUE), Entry("b2", 13, 1, 3, TRUE), Entry("", 1, 1, 1, TRUE),
         Entry("b2", 2, 1, 1, FALSE) >> }

\* lines 155-197: the entries that pass the checks, the first of each id
RECURSIVE ValidBooks(_, _)
ValidBooks(data, acc) ==
    IF data = <<>> THEN acc
    ELSE LET item == Head(data)
             good == /\ item.ok
                     /\ item.id # ""
                     /\ \A k \in 1..Len(acc) : acc[k].id # item.id
                     /\ 1 <= item.month /\ item.month <= 12
                     /\ item.start_date <= item.end_date
         IN  ValidBooks(Tail(data), IF good THEN Append(acc, item) ELSE acc)

\* faulty variant: INSERT OR REPLACE, the row of a known book is written anew
Replaced(rows, valid) ==
    LET ids == {valid[k].id : k \in 1..Len(valid)}
        ent(i) == valid[CHOOSE k \in 1..Len(valid) : valid[k].id = i]
    IN  {r \in rows : r.id \notin ids}
        \cup {[id |-> i, month |-> ent(i).month, start_date |-> ent(i).start_date,
               end_date |-> ent(i).end_date, completed |-> FALSE] : i \in ids}
\* lines 199-220: INSERT ... ON CONFLICT(id) DO UPDATE of the month and the
\* dates; the completion flag of a known book is kept, that of a new one is 0
Upserted(rows, valid) ==
    LET ids == {valid[k].id : k \in 1..Len(valid)}
        ent(i) == valid[CHOOSE k \in 1..Len(valid) : valid[k].id = i]
    IN  {r \in rows : r.id \notin ids}
        \cup {[id |-> i, month |-> ent(i).month, start_date |-> ent(i).start_date,
               end_date |-> ent(i).end_date,
               completed |-> IF \E r \in rows : r.id = i
                             THEN (CHOOSE r \in rows : r.id = i).completed ELSE FALSE] : i \in ids}

\* load_books, lines 134-222
load_books(rows, data) == Upserted(rows, ValidBooks(data, <<>>))

\* ---------------------------------------------------------------- selection
\* values a request body can carry in "ids"
SelPayloads == {<<>>, <<"x">>, <<"1">>, <<"2", "1">>, <<"2", "x", "2">>}
BookIds == {"b1", "nope"}

\* int(value): raises for a value that is no number
IsInt(tok) == tok \in {"1", "2", "3"}
IntOf(tok) == CASE tok = "1" -> 1 [] tok = "2" -> 2 [] OTHER -> 3

InSeq(x, sq) == \E i \in 1..Len(sq) : sq[i] = x

\* _normalize_id_list, lines 806-813: the values int() accepts, first
\* occurrences only, in order
RECURSIVE Normalized(_, _)
Normalized(raw, acc) ==
    IF raw = <<>> THEN acc
    ELSE IF IsInt(Head(raw)) /\ ~InSeq(IntOf(Head(raw)), acc)
         THEN Normalized(Tail(raw), Append(acc, IntOf(Head(raw))))
         ELSE Normalized(Tail(raw), acc)
_normalize_id_list(raw) == Normalized(raw, <<>>)

\* date(date_taken) >= date(start_date) AND date(date_taken) <= date(end_date)
InRange(d, book) == book.start_date <= d /\ d <= book.end_date

\* faulty variant: the dates are not compared
_filter_ids_unscoped(rows, book, ids) == {r.id : r \in {x \in rows : InSeq(x.id, ids)}}
\* _filter_ids_for_book, lines 816-830
_filter_ids_for_book(rows, book, ids) ==
    {r.id : r \in {x \in rows : InSeq(x.id, ids) /\ InRange(x.date, book)}}

NoRequest ==
    [op |-> "none", pc |-> "idle", book |-> "", raw |-> <<>>, ids |-> <<>>, selected |-> FALSE,
     valid |-> {}, files |-> {}]

\* a response of an endpoint; the fields an endpoint does not return keep
\* the values of NoResponse
NoResponse ==
    [op |-> "none", book |-> "", status |-> 0, photos |-> <<>>, total_photos |-> 0,
     selected_count |-> 0, offset |-> 0, limit |-> 0, selected_only |-> FALSE,
     has_more |-> FALSE, updated |-> 0, completed |-> FALSE, files |-> {},
     index |-> IdleState]

Response(op, b, status) == [NoResponse EXCEPT !.op = op, !.book = b, !.status = status]

\* _get_book_or_404, lines 798-803
Known(b) == \E bk \in books : bk.id = b
BookOf(b) == CHOOSE bk \in books : bk.id = b

\* update_selection, lines 916-925: normalise, return early on an empty
\* list, look the book up, filter the ids (a SELECT outside any transaction)
SelBegin(b, raw, flag) ==
    /\ req.pc = "idle"
    /\ LET ids == _normalize_id_list(raw)
       IN  IF ids = <<>>
           THEN /\ req' = NoRequest
                /\ resp' = Response("update_selection", b, 200)
           ELSE IF ~Known(b)
           THEN /\ req' = NoRequest
                /\ resp' = Response("update_selection", b, 404)
           ELSE /\ req' = [NoRequest EXCEPT !.op = "update_selection", !.pc = "filtered",
                                            !.book = b, !.raw = raw, !.ids = ids, !.selected = flag,
                                            !.valid = _filter_ids_for_book(photos, BookOf(b), ids)]
                /\ UNCHANGED resp
    /\ UNCHANGED <<rootExists, fs, thumbs, photos, selections, books, index_state, callers,
                   thr, tmp, fsEvents, creates, faults, dirty, cleanRuns>>

\* no run holds the write lock of the database
NoWriter == \A t \in Threads : ~thr[t].inTxn

\* update_selection, lines 927-943: the upserts and their commit; the
\* INSERT waits for the write lock of a run that has not committed
SelApply ==
    /\ req.op = "update_selection" /\ req.pc = "filtered"
    /\ NoWriter
    /\ selections' = {x \in selections : ~(x.book = req.book /\ x.photo \in req.valid)}
                     \cup {[book |-> req.book, photo |-> i, selected |-> req.selected] : i \in req.valid}
    /\ resp' = [Response("update_selection", req.book, 200) EXCEPT !.updated = Cardinality(req.valid)]
    /\ req' = NoRequest
    /\ UNCHANGED <<rootExists, fs, thumbs, photos, books, index_state, callers, thr,
                   tmp, fsEvents, creates, faults, dirty, cleanRuns>>

\* ---------------------------------------------------------------- book listing
\* LEFT JOIN selections ... COALESCE(s.selected, 0) = 1
Selected(sel, b, i) == \E x \in sel : x.book = b /\ x.photo = i /\ x.selected

\* lines 849-852 / 861-864: the rows of the book's date range, those with a
\* selected row only when selected_only is set
Matching(rows, sel, book, only) ==
    {r \in rows : InRange(r.date, book) /\ (only => Selected(sel, book.id, r.id))}

\* line 865: ORDER BY p.date_taken ASC, p.id ASC
Before(r, q) == r.date < q.date \/ (r.date = q.date /\ r.id < q.id)
RECURSIVE Ordered(_)
Ordered(S) ==
    IF S = {} THEN <<>>
    ELSE LET m == CHOOSE r \in S : \A q \in S \ {r} : Before(r, q)
         IN  <<m>> \o Ordered(S \ {m})

\* line 866: LIMIT ? OFFSET ?
Slice(sq, offset, limit) == SubSeq(sq, offset + 1, Min({Len(sq), offset + limit}))

IdsIn(sq) == [k \in 1..Len(sq) |-> sq[k].id]

\* lines 870-879: the rows of the slice that have a thumbnail_path
Thumbnailed(sq) == IdsIn(SelectSeq(sq, LAMBDA r : r.thumb # 0))

\* lines 881-885
SelectedCount(sel, b) == Cardinality({x \in sel : x.book = b /\ x.selected})

\* the body api_book returns for a book row (lines 846-897)
BookPage(rows, sel, book, offset, limit, only) ==
    LET all == Ordered(Matching(rows, sel, book, only))
        page == Thumbnailed(Slice(all, offset, limit))
    IN  [Response("api_book", book.id, 200) EXCEPT
            !.photos = page, !.total_photos = Len(all),
            !.selected_count = SelectedCount(sel, book.id),
            !.offset = offset, !.limit = limit, !.selected_only = only,
            !.has_more = (offset + Len(page) < Len(all))]

\* api_book, lines 833-897: the reads of one request, of the committed rows
api_book(b, offset, limit, only) ==
    /\ resp' = IF Known(b) THEN BookPage(photos, selections, BookOf(b), offset, limit, only)
               ELSE Response("api_book", b, 404)
    /\ UNCHANGED <<rootExists, fs, thumbs, photos, selections, books, index_state, callers, thr,
                   req, tmp, fsEvents, creates, faults, dirty, cleanRuns>>

\* faulty variant: the rows of every book are deleted
Cleared(sel, b) == {}
\* line 951: DELETE FROM selections WHERE book_id = ?
ClearedOf(sel, b) == {x \in sel : x.book # b}

\* clear_selection, lines 946-954
clear_selection(b) ==
    /\ IF Known(b)
       THEN /\ NoWriter
            /\ selections' = ClearedOf(selections, b)
            /\ resp' = Response("clear_selection", b, 200)
       ELSE /\ resp' = Response("clear_selection", b, 404)
            /\ UNCHANGED selections
    /\ UNCHANGED <<rootExists, fs, thumbs, photos, books, index_state, callers, thr,
                   req, tmp, fsEvents, creates, faults, dirty, cleanRuns>>

\* set_book_completion, lines 900-911
set_book_completion(b, completed) ==
    /\ IF Known(b)
       THEN /\ NoWriter
            /\ books' = {IF bk.id = b THEN [bk EXCEPT !.completed = completed] ELSE bk : bk \in books}
            /\ resp' = [Response("set_book_completion", b, 200) EXCEPT !.completed = completed]
       ELSE /\ resp' = Response("set_book_completion", b, 404)
            /\ UNCHANGED books
    /\ UNCHANGED <<rootExists, fs, thumbs, photos, selections, index_state, callers, thr,
                   req, tmp, fsEvents, creates, faults, dirty, cleanRuns>>

\* ---------------------------------------------------------------- status
\* index_status, lines 1003-1005: _get_index_state copies _index_state
\* under _index_lock (lines 72-74), so the copy is the dictionary between
\* two updates
index_status ==
    /\ resp' = [Response("index_status", "", 200) EXCEPT !.index = index_state]
    /\ UNCHANGED <<rootExists, fs, thumbs, photos, selections, books, index_state, callers, thr,
                   req, tmp, fsEvents, creates, faults, dirty, cleanRuns>>

\* ---------------------------------------------------------------- export
RECURSIVE SeqOf(_)
SeqOf(S) == IF S = {} THEN <<>> ELSE <<Min(S)>> \o SeqOf(S \ {Min(S)})

\* faulty variant: the flag of the rows is not read
SelectionIds(sel, b) == {x.photo : x \in {y \in sel : y.book = b}}
\* lines 968-972: the ids of the book's rows marked selected
SelectedIds(sel, b) == {x.photo : x \in {y \in sel : y.book = b /\ y.selected}}

\* lines 965-973: the given ids, or with none the selected ones, of the
\* book's date range
ExportIds(rows, sel, book, ids) ==
    IF ids # <<>> THEN _filter_ids_for_book(rows, book, ids)
    ELSE _filter_ids_for_book(rows, book, SeqOf(SelectedIds(sel, book.id)))

\* faulty variant: every resolved path is kept
Resolved(files) == files
\* line 984: the resolved paths that exist
ExistingFiles(files) == {p \in files : Exists(At(p))}

\* export_zip, lines 959-993: the ids, their paths, the paths that exist,
\* and the temporary file
ExportBegin(b, raw) ==
    /\ req.pc = "idle"
    /\ LET ids == _normalize_id_list(raw)
           valid_ids == ExportIds(photos, selections, BookOf(b), ids)
           files == {r.path : r \in {x \in photos : x.id \in valid_ids}}
           existing_files == ExistingFiles(files)
       IN  IF ~Known(b)
           THEN /\ resp' = Response("export_zip", b, 404)
                /\ UNCHANGED <<req, tmp>>
           ELSE IF valid_ids = {} \/ existing_files = {}
           THEN /\ resp' = Response("export_zip", b, 400)
                /\ UNCHANGED <<req, tmp>>
           ELSE /\ tmp < MaxTmp
                /\ tmp' = tmp + 1
                /\ req' = [NoRequest EXCEPT !.op = "export_zip", !.pc = "archive", !.book = b,
                                            !.files = existing_files]
                /\ UNCHANGED resp
    /\ UNCHANGED <<rootExists, fs, thumbs, photos, selections, books, index_state, callers, thr,
                   fsEvents, creates, faults, dirty, cleanRuns>>

\* lines 995-999: the archive is written; archive.write raises for a file
\* that is no longer there, and the exception leaves the endpoint
ExportArchive ==
    /\ req.op = "export_zip" /\ req.pc = "archive"
    /\ IF \A p \in req.files : Exists(At(p))
       THEN /\ req' = [req EXCEPT !.pc = "deliver"]
            /\ UNCHANGED resp
       ELSE /\ req' = NoRequest
            /\ resp' = Response("export_zip", req.book, 500)
    /\ UNCHANGED <<rootExists, fs, thumbs, photos, selections, books, index_state, callers, thr,
                   tmp, fsEvents, creates, faults, dirty, cleanRuns>>

\* line 1000 and the background task of line 999: the file is sent, then
\* unlinked
ExportDeliver ==
    /\ req.op = "export_zip" /\ req.pc = "deliver"
    /\ resp' = [Response("export_zip", req.book, 200) EXCEPT !.files = req.files]
    /\ tmp' = tmp - 1
    /\ req' = NoRequest
    /\ UNCHANGED <<rootExists, fs, thumbs, photos, selections, books, index_state, callers, thr,
                   fsEvents, creates, faults, dirty, cleanRuns>>

\* ---------------------------------------------------------------- process start
\* startup, lines 468-473, of a process started after the one before has
\* ended with no run and no request in it: the books are loaded and, when
\* the root exists, a run is started
startup(data) ==
    /\ \A t \in Threads : ~Active(t)
    /\ \A c \in Callers : callers[c].pc = "ready"
    /\ req.pc = "idle"
    /\ books' = load_books(books, data)
    /\ IF rootExists
       THEN /\ index_state' = RunningState
            /\ thr' = [Recycled EXCEPT ![Min(FreeSlots)] = [NoThread EXCEPT !.pc = "begin"]]
       ELSE /\ index_state' = IdleState
            /\ thr' = Recycled
    /\ UNCHANGED <<rootExists, fs, thumbs, photos, selections, callers, req, resp, tmp,
                   fsEvents, creates, faults, dirty, cleanRuns>>

\* ---------------------------------------------------------------- specifications
InitTrees ==
    { [p \in Paths |-> NoFile],
      [p \in Paths |-> IF p = "a.jpg" THEN File(1, 1, 0, TRUE) ELSE NoFile],
      [p \in Paths |-> IF p \notin SmallPaths THEN NoFile
                       ELSE IF p = "b.PNG" THEN File(2, 1, ExifOf(p), TRUE)
                       ELSE File(1, 1, ExifOf(p), TRUE)] }

InitBooks == {[id |-> "b1", month |-> 1, start_date |-> 1, end_date |-> 1, completed |-> FALSE]}

\* the state of a process that has come up over the tree fs0 with the rows
\* bk in table books
InitWith(fs0, bk) ==
    /\ rootExists = TRUE
    /\ fs = fs0
    /\ thumbs = {}
    /\ photos = {}
    /\ selections = {}
    /\ books = bk
    /\ index_state = IdleState
    /\ callers = [c \in Callers |-> [pc |-> "ready", force |-> FALSE, ret |-> "none"]]
    /\ thr = [t \in Threads |-> NoThread]
    /\ req = NoRequest
    /\ resp = NoResponse
    /\ tmp = 0
    /\ fsEvents = 0
    /\ creates = Cardinality({p \in Paths : fs0[p] # NoFile})
    /\ faults = 0
    /\ dirty = FALSE
    /\ cleanRuns = 0

Init == \E fs0 \in InitTrees : InitWith(fs0, InitBooks)

Start(c) == (\E force \in BOOLEAN : StartTAS(c, force)) \/ StartLaunch(c)

Run(t) ==
    \/ W_Begin(t)
    \/ W_List(t)
    \/ \E p \in Paths : W_File(t, p)
    \/ W_Flush(t)
    \/ W_Remove(t)
    \/ W_Thumb(t)
    \/ W_Finish(t)

Tree ==
    \/ \E p \in Pictures : FsCreate(p)
    \/ \E p \in Pictures : FsDelete(p)
    \/ \E p \in Pictures : FsTouch(p)
    \/ \E p \in Pictures : FsResize(p)
    \/ \E p \in Pictures : FsBreak(p)

\* reconciliation: one caller, a tree that changes under the runs
Next ==
    \/ Start(1)
    \/ \E t \in Threads : Run(t)
    \/ Tree

Spec == Init /\ [][Next]_vars

\* the coordinator: callers that race, runs that raise, a root that goes away
CoordNext ==
    \/ \E c \in Callers : Start(c)
    \/ \E t \in Threads : Run(t)
    \/ \E t \in Threads : W_Raise(t)
    \/ RootToggle

CoordSpec == Init /\ [][CoordNext]_vars

\* one caller; a started thread is scheduled until it ends, and
\* thread.start() returns
FairNext ==
    \/ Start(1)
    \/ \E t \in Threads : Run(t)
    \/ \E t \in Threads : W_Raise(t)
    \/ RootToggle

FairSpec ==
    /\ Init /\ [][FairNext]_vars
    /\ WF_vars(\E t \in Threads : Run(t))
    /\ WF_vars(StartLaunch(1))

\* selection requests beside the runs, over a tree that loses files
SelNext ==
    \/ Start(1)
    \/ \E t \in Threads : Run(t)
    \/ \E p \in Pictures : FsDelete(p)
    \/ \E b \in BookIds, raw \in SelPayloads, flag \in BOOLEAN : SelBegin(b, raw, flag)
    \/ SelApply

SelSpec == Init /\ [][SelNext]_vars

\* the state of a process that has loaded a configuration of two books
TwoBooks == load_books({}, << Entry("b1", 1, 1, 1, TRUE), Entry("b2", 2, 1, 3, TRUE) >>)
ApiInit == \E fs0 \in InitTrees : InitWith(fs0, TwoBooks)

\* selection requests of two books beside the runs
SelectNext ==
    \/ Start(1)
    \/ \E t \in Threads : Run(t)
    \/ \E raw \in SelPayloads, flag \in BOOLEAN : SelBegin("b1", raw, flag)
    \/ SelBegin("b2", <<"2", "1">>, TRUE)
    \/ SelApply
    \/ \E b \in {"b1", "b2"} : clear_selection(b)

SelectSpec == ApiInit /\ [][SelectNext]_vars

\* selections beside the runs, over a file that is touched, in processes
\* that are started again with another books configuration
ScopeNext ==
    \/ Start(1)
    \/ \E t \in Threads : Run(t)
    \/ FsTouch("a.jpg")
    \/ \E data \in BookConfigs : startup(data)
    \/ \E raw \in {<<"1">>, <<"2", "1">>} : SelBegin("b1", raw, TRUE)
    \/ SelApply
    \/ clear_selection("b1")

ScopeSpec == ApiInit /\ [][ScopeNext]_vars

\* listings of the books beside the runs and a selection
ListNext ==
    \/ Start(1)
    \/ \E t \in Threads : Run(t)
    \/ SelBegin("b2", <<"1">>, TRUE)
    \/ SelApply
    \/ \E b \in {"b1", "b2"}, offset \in 0..MaxOffset, limit \in 1..MaxLimit, only \in BOOLEAN :
          api_book(b, offset, limit, only)

ListSpec == ApiInit /\ [][ListNext]_vars

\* exports of the books beside the runs and a selection, over a tree that
\* loses a file
ExportNext ==
    \/ StartTAS(1, FALSE)
    \/ StartLaunch(1)
    \/ \E t \in Threads : Run(t)
    \/ FsDelete("a.jpg")
    \/ SelBegin("b2", <<"2", "1">>, TRUE)
    \/ SelBegin("b2", <<"1">>, FALSE)
    \/ SelApply
    \/ ExportBegin("b1", <<"2", "1">>)
    \/ \E raw \in {<<>>, <<"x">>, <<"1">>, <<"2", "1">>} : ExportBegin("b2", raw)
    \/ ExportArchive
    \/ ExportDeliver

ExportSpec == ApiInit /\ [][ExportNext]_vars

\* every book endpoint, for a book of the catalog and for an id that is not
\* one, beside the runs
BookNext ==
    \/ StartTAS(1, FALSE)
    \/ StartLaunch(1)
    \/ \E t \in Threads : Run(t)
    \/ \E b \in BookIds, raw \in {<<>>, <<"x">>, <<"1">>} : SelBegin(b, raw, TRUE)
    \/ SelApply
    \/ \E b \in BookIds : api_book(b, 0, MaxLimit, FALSE)
    \/ \E b \in BookIds : clear_selection(b)
    \/ \E b \in BookIds : set_book_completion(b, TRUE)
    \/ \E b \in BookIds : ExportBegin(b, <<"1">>)
    \/ ExportArchive
    \/ ExportDeliver

BookSpec == Init /\ [][BookNext]_vars

\* status requests beside the runs of one caller, runs that raise included
StatusNext ==
    \/ Start(1)
    \/ \E t \in Threads : Run(t)
    \/ \E t \in Threads : W_Raise(t)
    \/ index_status

StatusSpec == Init /\ [][StatusNext]_vars

\* a tree of four pictures, none of them indexed yet
LongTree == [p \in Paths |-> IF Supported(p) THEN File(1, 1, ExifOf(p), TRUE) ELSE NoFile]
BatchInit == InitWith(LongTree, InitBooks)

\* runs over the tree of four pictures, one of which may be deleted
BatchNext ==
    \/ StartTAS(1, FALSE)
    \/ StartLaunch(1)
    \/ \E t \in Threads : Run(t)
    \/ \E p \in Paths : FsDelete(p)

BatchSpec == BatchInit /\ [][BatchNext]_vars

\* the state of a process that comes up over a catalog whose book a process
\* before has or has not marked as completed
ReloadInit ==
    \E fs0 \in InitTrees, c \in BOOLEAN :
        InitWith(fs0, {[bk EXCEPT !.completed = c] : bk \in InitBooks})

\* processes that start over one configuration after the other, and
\* completion requests between the starts
ReloadNext ==
    \/ \E data \in BookConfigs : startup(data)
    \/ \E t \in Threads : Run(t)
    \/ \E b \in {"b1", "b2"}, c \in BOOLEAN : set_book_completion(b, c)

ReloadSpec == ReloadInit /\ [][ReloadNext]_vars

\* runs over a tree whose files become impossible to stat, beside
\* selection requests for the indexed pictures
StatNext ==
    \/ Start(1)
    \/ \E t \in Threads : Run(t)
    \/ \E p \in Pictures : FsBreak(p)
    \/ \E raw \in {<<"1">>, <<"2", "1">>} : SelBegin("b1", raw, TRUE)
    \/ SelApply

StatSpec == Init /\ [][StatNext]_vars


\* ---------------------------------------------------------------- properties
\* thread t is the run that has just completed
CompletedRun(t) == thr[t].pc = "done" /\ index_state.state = "complete"

\* the files of the tree whose extension is jpg, jpeg, png or heic in any case
TreePictures == {p \in {"a.jpg", "b.PNG"} : At(p).present}

Differs(row, f) == row.mtime # f.mtime \/ row.size # f.size

\* the counts of a run: cand is the set of paths that count
CountsOver(L, cand) ==
    /\ index_state.new = Cardinality({p \in cand : p \notin PathsOf(L.existing)})
    /\ index_state.updated =
          Cardinality({p \in cand \cap PathsOf(L.existing) :
                          L.force \/ Differs(RowAt(L.existing, p), At(p))})
    /\ index_state.removed = Cardinality(PathsOf(L.existing) \ L.seen)

\* C6 as stated: a completed run over a tree reports new = the observed
\* supported paths not in the catalog, updated = the observed catalog paths
\* that are forced or whose stored mtime or size differs, removed = the
\* catalog paths not observed.
C6_CountsOfObserved ==
    \A t \in Threads :
        CompletedRun(t) /\ ~dirty => thr[t].seen = TreePictures /\ CountsOver(thr[t], thr[t].seen)

\* C6, amended: the same counts, over the observed paths whose stat
\* succeeded; a path whose stat fails is observed and counted as neither
\* new nor updated.
C6_CountsOfStatted ==
    \A t \in Threads :
        CompletedRun(t) /\ ~dirty =>
            /\ thr[t].seen = TreePictures
            /\ CountsOver(thr[t], {p \in thr[t].seen : StatOk(At(p))})

\* a completed run, not forced, found one known file unchanged and could
\* not stat another
C6_Witness ==
    \E t \in Threads :
        /\ CompletedRun(t) /\ ~dirty /\ ~thr[t].force
        /\ index_state.updated = 0 /\ index_state.new = 0 /\ index_state.removed = 0
        /\ \E p, q \in thr[t].seen \cap PathsOf(thr[t].existing) : ~StatOk(At(p)) /\ StatOk(At(q))

Core(rows) == {[path |-> r.path, date |-> r.date, mtime |-> r.mtime, size |-> r.size] : r \in rows}

\* C7: the second of two completed runs over an unchanged tree, not
\* forced, reports new = updated = removed = 0 and leaves the records'
\* path, capture date, mtime and size as they were.
C7_Idempotent ==
    \A t \in Threads :
        CompletedRun(t) /\ cleanRuns >= 2 /\ ~thr[t].force =>
            /\ index_state.new = 0 /\ index_state.updated = 0 /\ index_state.removed = 0
            /\ Core(photos) = Core(thr[t].existing)

C7_Witness ==
    \E t \in Threads :
        /\ CompletedRun(t) /\ cleanRuns >= 2 /\ ~thr[t].force
        /\ Cardinality(photos) = 2

\* C8: after a run completes over a tree that did not change during the run
\* and whose files can all be stat'ed, the records' paths are the supported
\* files of the tree, no two records share a path, and every record holds
\* its file's mtime and size.
C8_CatalogMatchesTree ==
    \A t \in Threads :
        CompletedRun(t) /\ ~dirty /\ (\A p \in TreePictures : StatOk(At(p))) =>
            /\ PathsOf(photos) = TreePictures
            /\ Cardinality(PathsOf(photos)) = Cardinality(photos)
            /\ \A r \in photos : r.mtime = At(r.path).mtime /\ r.size = At(r.path).size

\* such a run, not forced, which found one of two known files changed,
\* beside an unsupported file
C8_Witness ==
    \E t \in Threads :
        /\ CompletedRun(t) /\ ~dirty /\ (\A p \in TreePictures : StatOk(At(p)))
        /\ ~thr[t].force
        /\ Cardinality(photos) = 2 /\ index_state.updated = 1 /\ index_state.new = 0
        /\ fs["n.txt"].present

\* C10 as stated: new + updated of a completed run is the number of rows
\* the run inserted or modified, the rows only given a thumbnail reference
\* by the backfill included.
C10_ConservationWithBackfill ==
    \A t \in Threads :
        CompletedRun(t) =>
            index_state.new + index_state.updated
                = Cardinality(thr[t].walkWrote \cup thr[t].thumbWrote)

\* C10, amended: new + updated of a completed run is the number of rows the
\* walk inserted or updated; a row that the run only gave a thumbnail
\* reference is counted in neither.
C10_ConservationOfWalk ==
    \A t \in Threads :
        CompletedRun(t) =>
            index_state.new + index_state.updated = Cardinality(thr[t].walkWrote)

\* a completed run inserted a row, updated another, and gave a thumbnail
\* to a row it did not otherwise write
C10_Witness ==
    \E t \in Threads :
        /\ CompletedRun(t)
        /\ index_state.new + index_state.updated >= 1
        /\ thr[t].thumbWrote \ thr[t].walkWrote # {}


\* ---------------------------------------------------------------- coordinator properties
Launching == {c \in Callers : callers[c].pc = "launch"}
Running == {t \in Threads : Active(t)}

\* at most one run is started or active, and exactly then the state is running
OneFlight ==
    /\ Cardinality(Launching) + Cardinality(Running) <= 1
    /\ index_state.state = "running" <=> Launching \cup Running # {}

\* caller c's call is decided in this step
Decided(c) == callers[c].pc = "ready" /\ callers'[c] # callers[c]

\* C1: at most one execution unit is active at any time; a Start issued
\* while the state is running returns 'not started', launches nothing and
\* leaves the job state unchanged; a Start issued in another state is the
\* one that is accepted, and no second one is until its run has ended.
C1_SingleFlight ==
    [][ /\ OneFlight /\ OneFlight'
        /\ \A c \in Callers :
              /\ Decided(c) /\ index_state.state = "running" =>
                    /\ callers'[c].pc = "ready" /\ callers'[c].ret = "not_started"
                    /\ index_state' = index_state /\ thr' = thr
              /\ Decided(c) /\ index_state.state # "running" =>
                    /\ callers'[c].pc = "launch" /\ index_state'.state = "running"
                    /\ \A d \in Callers \ {c} : callers'[d] = callers[d]
              /\ callers[c].pc = "launch" /\ callers'[c].pc = "ready" =>
                    callers'[c].ret = "started" /\ Cardinality({t \in Threads : Active(t)'}) = 1
      ]_vars

\* one caller was told 'not started' while the run another started is active
C1_Witness ==
    \E c, d \in Callers :
        /\ callers[c].ret = "started" /\ callers[d].ret = "not_started"
        /\ \E t \in Threads : thr[t].pc = "walk"

Transitions ==
    {<<"idle", "running">>, <<"complete", "running">>, <<"error", "running">>,
     <<"running", "complete">>, <<"running", "error">>}

\* C2: the job state only moves idle->running, complete->running,
\* error->running, running->complete and running->error; an accepted Start
\* never finds the state running, and idle is never entered again.
C2_Transitions ==
    [][ /\ index_state'.state # index_state.state =>
              <<index_state.state, index_state'.state>> \in Transitions
        /\ \A c \in Callers :
              callers[c].pc = "ready" /\ callers'[c].pc = "launch" =>
                  index_state.state \in {"idle", "complete", "error"}
      ]_vars

\* a Start was accepted after a run had ended in error without a walk
C2_Witness ==
    /\ index_state.state = "running"
    /\ \E t \in Threads : thr[t].pc = "done" /\ ~thr[t].walked
    /\ \E c \in Callers : callers[c].pc = "launch"

\* C3: a run that was started leaves the running state: running leads to
\* complete or error (after which a Start is accepted again).
C3_RunEnds ==
    (index_state.state = "running") ~> (index_state.state \in {"complete", "error"})

\* a run that wrote rows has ended, and the next one was started
C3_Witness ==
    /\ index_state.state = "running"
    /\ \E t \in Threads : thr[t].pc = "done" /\ thr[t].walkWrote # {}
    /\ callers[1].pc = "launch"

\* C4: a run that begins while the photo root does not exist ends at once in
\* state error with a finish timestamp and a message, without a walk, and
\* leaves the photo and selection records as they are.
C4_MissingRoot ==
    [][ \A t \in Threads :
          thr[t].pc = "begin" /\ thr'[t].pc # "begin" /\ ~rootExists =>
              /\ index_state'.state = "error"
              /\ index_state'.finished_at = Now
              /\ index_state'.message # ""
              /\ thr'[t].pc = "done" /\ ~thr'[t].walked /\ thr'[t].seen = {}
              /\ photos' = photos /\ selections' = selections
      ]_vars

\* the run over a missing root left a catalog with records in it
C4_Witness ==
    /\ index_state.state = "error"
    /\ index_state.message = "PHOTO_ROOT does not exist"
    /\ photos # {}

\* thread t raises an exception in this step: one the run counts (a failed
\* stat, a failed thumbnail) or one that leaves index_photos
Counts(t) == Active(t) /\ thr'[t].errors > thr[t].errors
Escapes(t) == Active(t) /\ faults' > faults /\ thr'[t].pc = "done"

ReportedFailed ==
    /\ index_state'.state = "error"
    /\ index_state'.finished_at = Now
    /\ index_state'.message = "Index failed"

\* a Start decided in state error is accepted
ErrorRestarts ==
    \A c \in Callers :
        Decided(c) /\ index_state.state = "error" =>
            callers'[c].pc = "launch" /\ index_state'.state = "running"

\* C5 as stated: any exception raised inside a run, in the walk, the removal
\* or the thumbnail backfill, makes the job state error with a finish
\* timestamp and the message; a Start is then accepted.
C5_AnyException ==
    [][ /\ \A t \in Threads : Counts(t) \/ Escapes(t) => ReportedFailed
        /\ ErrorRestarts
      ]_vars

\* C5, amended: an exception that leaves index_photos makes the job state
\* error with a finish timestamp and the message, and a Start is then
\* accepted; a failed stat and a failed thumbnail are counted in errors and
\* the run goes on.
C5_EscapingException ==
    [][ /\ \A t \in Threads : Escapes(t) => ReportedFailed
        /\ \A t \in Threads : Counts(t) => thr'[t].pc # "done" /\ index_state'.state = "running"
        /\ ErrorRestarts
      ]_vars

\* a run that had written rows raised, and the next Start was accepted
C5_Witness ==
    /\ \E t \in Threads : thr[t].pc = "done" /\ thr[t].walkWrote # {} /\ thr[t].rows # {}
    /\ faults = 1
    /\ \E c \in Callers : callers[c].pc = "launch"

\* ---------------------------------------------------------------- deletion cascade
\* C9: when a run that completes did not find the file of a record it
\* loaded, the catalog afterwards holds no record for that path and no
\* selection of that record's id, for any book.
C9_DeletionCascade ==
    \A t \in Threads :
        CompletedRun(t) =>
            \A r \in thr[t].existing :
                r.path \notin thr[t].seen =>
                    /\ r.path \notin PathsOf(photos)
                    /\ \A x \in selections : x.photo # r.id

\* ---------------------------------------------------------------- selection properties
\* C11: in every state, no selection record (book, photo) exists whose
\* photo's capture date lies outside that book's start_date..end_date.
C11_SelectionScoped ==
    \A x \in selections : \A r \in photos : \A bk \in books :
        r.id = x.photo /\ bk.id = x.book => bk.start_date <= r.date /\ r.date <= bk.end_date

\* the ids a payload names: the numbers among its values
Named(raw) == {IntOf(raw[k]) : k \in {j \in 1..Len(raw) : IsInt(raw[j])}}

\* the ids of the photo records whose capture date is within book b's range
Eligible(rows, bookrows, b) ==
    {r.id : r \in {x \in rows : \E bk \in bookrows :
                       bk.id = b /\ bk.start_date <= x.date /\ x.date <= bk.end_date}}

KeysOf(sel) == {<<x.book, x.photo>> : x \in sel}
RowsFor(sel, b, S) == {x \in sel : x.book = b /\ x.photo \in S}

\* C12: SetSelection finds as valid exactly the ids named by the payload
\* that are, as its query reads the catalog, ids of photo records with a
\* capture date in the book's range; it writes one record with the given
\* flag for each of them, returns their number, and leaves every other
\* selection record, the photo records and the books as they are; a payload
\* that names no id writes nothing and returns 0.
C12_SetSelection ==
    [][ /\ req.pc = "idle" /\ req'.op = "update_selection" =>
              /\ req'.valid = Named(req'.raw) \cap Eligible(photos, books, req'.book)
              /\ selections' = selections
        /\ req.op = "update_selection" /\ req'.pc = "idle" =>
              /\ resp'.status = 200 /\ resp'.updated = Cardinality(req.valid)
              /\ KeysOf(selections') = KeysOf(selections) \cup {<<req.book, i>> : i \in req.valid}
              /\ Cardinality(selections') = Cardinality(KeysOf(selections'))
              /\ \A x \in RowsFor(selections', req.book, req.valid) : x.selected = req.selected
              /\ selections' \ RowsFor(selections', req.book, req.valid)
                    = selections \ RowsFor(selections, req.book, req.valid)
              /\ photos' = photos /\ books' = books
        /\ req.pc = "idle" /\ req'.pc = "idle" /\ resp' # resp /\ resp'.op = "update_selection" =>
              /\ resp'.updated = 0
              /\ selections' = selections /\ photos' = photos /\ books' = books
      ]_vars

\* a request for two photos, of which one is in the book's range, was
\* applied beside a record of the other book
C12_Witness ==
    /\ resp.op = "update_selection" /\ resp.book = "b1" /\ resp.updated = 1
    /\ Cardinality(photos) = 2
    /\ Cardinality(Eligible(photos, books, "b1")) = 1
    /\ \E x \in selections : x.book = "b1" /\ ~x.selected
    /\ \E x \in selections : x.book = "b2" /\ x.selected

\* ---------------------------------------------------------------- listing properties
RangeOf(s) == {s[k] : k \in 1..Len(s)}
DateOfId(rows, i) == (CHOOSE r \in rows : r.id = i).date

\* the ids of sq are those of S, each once, by capture date and then by id
ListsInOrder(sq, S, rows) ==
    /\ RangeOf(sq) = S
    /\ Len(sq) = Cardinality(S)
    /\ \A i, j \in 1..Len(sq) :
          i < j => \/ DateOfId(rows, sq[i]) < DateOfId(rows, sq[j])
                   \/ DateOfId(rows, sq[i]) = DateOfId(rows, sq[j]) /\ sq[i] < sq[j]

\* C13: a listing of a book with offset 0, not restricted to the selected
\* photos, and a limit not below the number of photo records dated within
\* the book's range returns exactly those records, by capture date and then
\* by id, and as many photos as the total it reports.
C13_ListInRange ==
    [][ /\ resp' # resp /\ resp'.op = "api_book" /\ resp'.status = 200
        /\ resp'.offset = 0 /\ ~resp'.selected_only
        /\ resp'.limit >= Cardinality(Eligible(photos, books, resp'.book))
        => /\ ListsInOrder(resp'.photos, Eligible(photos, books, resp'.book), photos)
           /\ Len(resp'.photos) = resp'.total_photos
      ]_vars

\* the pages of the offsets 0, limit, 2*limit, ... below the total, one
\* after the other
RECURSIVE Pages(_, _, _, _, _)
Pages(rows, sel, book, limit, offset) ==
    LET page == BookPage(rows, sel, book, offset, limit, FALSE)
    IN  IF offset >= page.total_photos THEN <<>>
        ELSE page.photos \o Pages(rows, sel, book, limit, offset + limit)

\* C14: for the catalog of any state and any limit, the pages of the offsets
\* 0, limit, 2*limit, ... one after the other are the list of the photo
\* records within the book's range, each once, in order, as many as
\* total_photos counts, also when records wait for a thumbnail.
C14_PagesCover ==
    \A bk \in books : \A limit \in 1..MaxLimit :
        LET all == Pages(photos, selections, bk, limit, 0)
        IN  /\ ListsInOrder(all, Eligible(photos, books, bk.id), photos)
            /\ Len(all) = BookPage(photos, selections, bk, 0, limit, FALSE).total_photos

\* ---------------------------------------------------------------- clearing properties
\* C15: ClearSelection of a book leaves no selection record of that book,
\* so that a listing of its selected photos is empty with selected count 0,
\* and leaves the records of every other book and the photo records as they
\* are; records of a book with none only come from a SetSelection.
C15_ClearSelection ==
    [][ /\ resp' # resp /\ resp'.op = "clear_selection" /\ resp'.status = 200 =>
              /\ \A x \in selections' : x.book # resp'.book
              /\ {x \in selections' : x.book # resp'.book} = {x \in selections : x.book # resp'.book}
              /\ photos' = photos
              /\ LET page == BookPage(photos', selections', CHOOSE bk \in books' : bk.id = resp'.book,
                                       0, MaxLimit, TRUE)
                 IN  page.photos = <<>> /\ page.total_photos = 0 /\ page.selected_count = 0
        /\ \A b \in {"b1", "b2"} :
              (\A x \in selections : x.book # b) /\ (\E x \in selections' : x.book = b) =>
                  req.op = "update_selection" /\ req.book = b /\ req'.pc = "idle"
      ]_vars

\* the selection of a book whose photos can be selected was cleared beside
\* records of the other book, and a SetSelection of the book is under way
C15_Witness ==
    /\ resp.op = "clear_selection" /\ resp.status = 200 /\ resp.book = "b1"
    /\ Eligible(photos, books, "b1") # {}
    /\ \E x \in selections : x.book = "b2" /\ x.selected
    /\ req.op = "update_selection" /\ req.book = "b1" /\ req.valid # {}

\* ---------------------------------------------------------------- export properties
PathOfId(rows, i) == (CHOOSE r \in rows : r.id = i).path

\* the ids an export of book b with this payload is about: the ids the
\* payload names or, when it names none, the ids marked selected for b; of
\* these the ids of photo records dated within b's range whose file is there
EffectiveIds(b, raw) ==
    LET cand == IF Named(raw) # {} THEN Named(raw)
                ELSE {x.photo : x \in {y \in selections : y.book = b /\ y.selected}}
    IN  {i \in cand \cap Eligible(photos, books, b) :
            At(PathOfId(photos, i)).present /\ At(PathOfId(photos, i)).ok}

\* C16: an export whose effective id set is empty (no id named and no
\* selected photo in range, every named id outside the range or unknown, or
\* no file of the remaining ids left) fails with status 400, creates no
\* temporary file and changes no record.
C16_NothingToExport ==
    [][ req.pc = "idle" /\ (req'.op = "export_zip" \/ resp'.op = "export_zip") =>
          \A b \in {"b1", "b2"}, raw \in SelPayloads :
              ExportBegin(b, raw) /\ EffectiveIds(b, raw) = {} =>
                  /\ resp'.op = "export_zip" /\ resp'.status = 400
                  /\ tmp' = tmp /\ req' = req
                  /\ photos' = photos /\ selections' = selections /\ books' = books
      ]_vars

\* an export failed while a selected photo of the book's range had lost its
\* file
C16_Witness ==
    /\ resp.op = "export_zip" /\ resp.status = 400 /\ resp.book = "b2"
    /\ tmp = 0 /\ req.pc = "idle"
    /\ \E x \in selections :
          /\ x.book = "b2" /\ x.selected /\ x.photo \in Eligible(photos, books, "b2")
          /\ ~At(PathOfId(photos, x.photo)).present
    /\ \E x \in selections : x.book = "b2" /\ ~x.selected /\ x.photo \in IdsOf(photos)

\* C17: once an export has finished, delivered or failed, its temporary
\* file is gone: the temporary files that exist are those of the exports
\* under way.
C17_TempRemoved ==
    tmp = IF req.op = "export_zip" THEN 1 ELSE 0

\* C18: an export that succeeds archives exactly the files of the effective
\* ids as it read them (the named ids or, with none named, the selected
\* ones; within the book's range; file there), all of them still there when
\* the archive is written.
C18_ExportsSurvivors ==
    [][ /\ req.pc = "idle" /\ req'.op = "export_zip" =>
              \A b \in {"b1", "b2"}, raw \in SelPayloads :
                  ExportBegin(b, raw) =>
                      /\ req'.files = {PathOfId(photos, i) : i \in EffectiveIds(b, raw)}
                      /\ req'.files # {}
        /\ req.op = "export_zip" /\ req.pc = "archive" /\ req'.pc = "deliver" =>
              /\ req'.files = req.files
              /\ \A p \in req.files : At(p).present
        /\ resp' # resp /\ resp'.op = "export_zip" /\ resp'.status = 200 =>
              req.op = "export_zip" /\ req.pc = "deliver" /\ resp'.files = req.files
      ]_vars

\* the selected one of two photos of the book's range was exported
C18_Witness ==
    /\ resp.op = "export_zip" /\ resp.status = 200 /\ resp.book = "b2"
    /\ Cardinality(resp.files) = 1
    /\ Cardinality(Eligible(photos, books, "b2")) = 2
    /\ \A r \in photos : At(r.path).present
    /\ \E x, y \in selections : x.book = "b2" /\ y.book = "b2" /\ x.selected /\ ~y.selected

\* ---------------------------------------------------------------- unknown books
\* C19: every response to a request for a book id that is not in table
\* books has status 404, whatever the payload, and the request changes no
\* book, selection or photo record.
C19_UnknownBook ==
    [][ resp' # resp /\ (\A bk \in books : bk.id # resp'.book) =>
            /\ resp'.status = 404
            /\ books' = books /\ selections' = selections /\ photos' = photos
      ]_vars

\* ---------------------------------------------------------------- dangling selections
\* C20: in every state, also while a SetSelection and a run that removes
\* records are interleaved, the photo id of every selection record is the
\* id of a photo record of the catalog.
C20_NoDangling ==
    \A x \in selections : \E r \in photos : r.id = x.photo


\* ---------------------------------------------------------------- status properties
CounterNames == {"indexed", "new", "updated", "removed", "errors"}

\* what the run in flight has counted so far: nothing before its thread
\* exists, its thread's local counters after
CountedSoFar(k) ==
    IF Running = {} THEN 0
    ELSE LET L == thr[CHOOSE t \in Running : TRUE]
         IN  CASE k = "indexed" -> L.indexed
               [] k = "new" -> L.new
               [] k = "updated" -> L.updated
               [] k = "removed" -> L.removed
               [] OTHER -> L.errors

\* the value of counter k in the job state st
CounterOf(st, k) ==
    CASE k = "indexed" -> st.indexed
      [] k = "new" -> st.new
      [] k = "updated" -> st.updated
      [] k = "removed" -> st.removed
      [] OTHER -> st.errors

\* C21: a Status snapshot is the job state of one instant: an accepted Start
\* sets state running, the start time, no finish time and all counters zero
\* in one step, and a snapshot that shows running shows no finish time and
\* no counter above what the run in flight has counted itself.
C21_SnapshotAtOneInstant ==
    [][ /\ \A c \in Callers :
              callers[c].pc = "ready" /\ callers'[c].pc = "launch" =>
                  /\ index_state'.state = "running"
                  /\ index_state'.started_at = Now /\ index_state'.finished_at = None
                  /\ \A k \in CounterNames : CounterOf(index_state', k) = 0
        /\ resp'.op = "index_status" /\ resp' # resp =>
              /\ resp'.index = index_state /\ index_state' = index_state
              /\ resp'.index.state = "running" =>
                    /\ resp'.index.finished_at = None /\ resp'.index.started_at = Now
                    /\ \A k \in CounterNames : CounterOf(resp'.index, k) <= CountedSoFar(k)
      ]_vars

\* a snapshot of a second run, taken while the thread of the run before
\* still shows what that run had counted
C21_Witness ==
    /\ resp.op = "index_status" /\ resp.index = index_state
    /\ resp.index.state = "running" /\ resp.index.new = 0
    /\ \E t \in Threads : thr[t].pc = "done" /\ thr[t].new > 0

\* C22: from an accepted Start until the next accepted Start no update of
\* the job state lowers one of the counters processed, new, updated,
\* removed and errors, the updates that end the run in complete or in error
\* included, so successive snapshots of one run never show a counter fall.
C22_CountersMonotone ==
    [][ (\A c \in Callers : ~(callers[c].pc = "ready" /\ callers'[c].pc = "launch")) =>
            \A k \in CounterNames : CounterOf(index_state', k) >= CounterOf(index_state, k)
      ]_vars

\* a run ended in error after a batch of the walk had been reported
C22_Witness ==
    /\ index_state.state = "error" /\ index_state.new > 0
    /\ \E t \in Threads : thr[t].pc = "done" /\ thr[t].walked


\* ---------------------------------------------------------------- backfill properties
\* the photos as thread t's connection sees them after the step
ViewPhotosAfter(t) == IF thr'[t].inTxn THEN thr'[t].tphotos ELSE photos'

\* the thumbnail reference of the row with this id
RefOf(rows, i) == (CHOOSE r \in rows : r.id = i).thumb

\* C23: the backfill takes the rows whose reference is empty when it
\* begins, those left pending by earlier runs included, and handles each
\* once: the source file is absent, the reference stays empty and no error
\* is counted; or generation fails, the reference stays empty and one error
\* is counted; or the reference becomes the thumbnail file of the row's own
\* id, which exists.  A run that completes has handled them all and its
\* final commit and error count hold these outcomes.
C23_BackfillOutcome ==
    [][ \A t \in Threads :
          /\ thr[t].pc = "remove" /\ thr'[t].pc = "thumb" =>
                IdsOf(thr'[t].rows) = {r.id : r \in {x \in photos' : x.thumb = 0}}
          /\ thr[t].pc = "thumb" /\ thr'[t].pc = "thumb" /\ thr'[t].rows # thr[t].rows =>
                \E row \in thr[t].rows :
                    /\ thr'[t].rows = thr[t].rows \ {row}
                    /\ row.id \in IdsOf(ViewPhotos(t)) /\ RefOf(ViewPhotos(t), row.id) = 0
                    /\ IdsOf(ViewPhotosAfter(t)) = IdsOf(ViewPhotos(t))
                    /\ \A i \in IdsOf(ViewPhotos(t)) \ {row.id} :
                          RefOf(ViewPhotosAfter(t), i) = RefOf(ViewPhotos(t), i)
                    /\ \/ /\ ~StatOk(At(row.path))
                          /\ RefOf(ViewPhotosAfter(t), row.id) = 0
                          /\ thr'[t].errors = thr[t].errors
                       \/ /\ StatOk(At(row.path))
                          /\ RefOf(ViewPhotosAfter(t), row.id) = 0
                          /\ thr'[t].errors = thr[t].errors + 1
                       \/ /\ StatOk(At(row.path))
                          /\ RefOf(ViewPhotosAfter(t), row.id) = row.id
                          /\ \E th \in thumbs' : th.id = row.id
                          /\ thr'[t].errors = thr[t].errors
          /\ thr[t].pc = "thumb" /\ index_state'.state = "complete" /\ index_state.state = "running" =>
                /\ thr[t].rows = {}
                /\ photos' = ViewPhotos(t)
                /\ index_state'.errors = thr[t].errors
      ]_vars

\* a run has completed whose backfill gave a thumbnail to a record that an
\* earlier run, in which its generation failed, had left pending
C23_Witness ==
    \E t \in Threads :
        /\ CompletedRun(t) /\ faults > 0
        /\ thr[t].walkWrote = {} /\ thr[t].thumbWrote # {} /\ thr[t].errors = 0
        /\ \A r \in photos : r.thumb = r.id

\* thread t executes an INSERT or UPDATE on its connection in this step
Writes(t) ==
    /\ thr[t].pc \in {"walk", "thumb"}
    /\ thr'[t].walkWrote # thr[t].walkWrote \/ thr'[t].thumbWrote # thr[t].thumbWrote

\* C24: at every point of the walk and of the backfill the writes executed
\* and not yet committed are at most INDEX_BATCH_SIZE: between two steps,
\* and inside a step when the write has been executed and the commit that
\* may follow it has not.
C24_BatchBound ==
    [][ \A t \in Threads :
          /\ thr[t].uncommitted <= INDEX_BATCH_SIZE
          /\ Writes(t) => thr[t].uncommitted + 1 <= INDEX_BATCH_SIZE
      ]_vars


\* ---------------------------------------------------------------- book properties
\* lines 155-192: the checks an entry passes or fails by itself
Sound(item) ==
    /\ item.ok /\ item.id # ""
    /\ 1 <= item.month /\ item.month <= 12
    /\ item.start_date <= item.end_date

\* entry k is the one written for its id: the first sound entry of that id
Accepted(data, k) ==
    /\ Sound(data[k])
    /\ \A j \in 1..(k - 1) : ~(Sound(data[j]) /\ data[j].id = data[k].id)

\* C25: a load of the books configuration deletes no book row and changes
\* no completion flag; a row is created, not completed, only for a new id
\* with a valid entry, and the month and dates of a known id are those of
\* its first valid entry; a book without a valid entry is left as it is,
\* and every row written has month in 1..12 and start_date <= end_date.
C25_BookReload ==
    [][ \A data \in BookConfigs : startup(data) =>
          /\ Cardinality(books') = Cardinality(IdsOf(books'))
          /\ \A bk \in books : \E nb \in books' :
                /\ nb.id = bk.id /\ nb.completed = bk.completed
                /\ (\A k \in 1..Len(data) : Accepted(data, k) => data[k].id # bk.id) => nb = bk
          /\ \A nb \in books' : nb.id \notin IdsOf(books) =>
                /\ ~nb.completed
                /\ \E k \in 1..Len(data) : Accepted(data, k) /\ data[k].id = nb.id
          /\ \A k \in 1..Len(data) : Accepted(data, k) =>
                \E nb \in books' :
                    /\ nb.id = data[k].id /\ nb.month = data[k].month
                    /\ nb.start_date = data[k].start_date /\ nb.end_date = data[k].end_date
          /\ \A nb \in books' \ books :
                1 <= nb.month /\ nb.month <= 12 /\ nb.start_date <= nb.end_date
      ]_vars

\* no completion request was made, and the book that came completed from
\* the process before has the dates of a later configuration beside a book
\* that a load created
C25_Witness ==
    /\ resp.op = "none"
    /\ \E bk \in books : bk.id = "b1" /\ bk.completed /\ bk.start_date = 2
    /\ \E bk \in books : bk.id = "b2" /\ ~bk.completed


\* ---------------------------------------------------------------- thumbnail properties
\* C26: when a run has completed over a tree that did not change under it,
\* every record with a thumbnail reference names a thumbnail file that
\* exists and was generated from the file at the record's path in the
\* version (mtime, size) the record stores.
C26_ThumbnailFresh ==
    \A t \in Threads :
        CompletedRun(t) /\ ~dirty =>
            \A r \in photos : r.thumb # 0 =>
                \E th \in thumbs :
                    /\ th.id = r.thumb /\ th.path = r.path
                    /\ th.mtime = r.mtime /\ th.size = r.size


\* ---------------------------------------------------------------- walk properties
\* the selections as thread t's connection sees them after the step
ViewSelAfter(t) == IF thr'[t].inTxn THEN thr'[t].tsel ELSE selections'

\* C27: a file of the walk whose stat fails costs one error and nothing
\* else: the walk goes on with the files that are left, the path counts as
\* seen, and no row, selection or thumbnail is written; the removal keeps
\* the record of every seen path with its selections, so that after a run
\* over an unchanged tree the record of a file that cannot be stat'ed is
\* the one the run found.
C27_StatFailureSkips ==
    [][ \A t \in Threads :
          /\ \A p \in Paths :
                thr[t].pc = "walk" /\ p \in thr[t].todo /\ p \notin thr'[t].todo
                /\ ~StatOk(At(p)) =>
                    /\ thr'[t].errors = thr[t].errors + 1
                    /\ thr'[t].pc = "walk" /\ thr'[t].todo = thr[t].todo \ {p}
                    /\ p \in thr'[t].seen
                    /\ thr'[t].indexed = thr[t].indexed /\ thr'[t].updated = thr[t].updated
                    /\ ViewPhotosAfter(t) = ViewPhotos(t) /\ ViewSelAfter(t) = ViewSel(t)
                    /\ photos' = photos /\ selections' = selections /\ thumbs' = thumbs
                    /\ index_state' = index_state
          /\ thr[t].pc = "remove" /\ thr'[t].pc = "thumb" =>
                \A r \in thr[t].existing : r.path \in thr[t].seen =>
                    /\ \E q \in photos' : q.id = r.id /\ q.path = r.path
                    /\ \A x \in ViewSel(t) : x.photo = r.id => x \in selections'
          /\ thr'[t].pc = "done" /\ index_state'.state = "complete"
             /\ index_state.state = "running" /\ ~dirty' =>
                \A r \in thr[t].existing :
                    At(r.path).present /\ ~StatOk(At(r.path)) => r \in photos'
      ]_vars

\* a run has completed over an unchanged tree in which the file of a
\* selected record could not be stat'ed; record and selection are there
C27_Witness ==
    \E t \in Threads :
        /\ CompletedRun(t) /\ ~dirty /\ thr[t].errors > 0
        /\ \E r \in thr[t].existing :
              /\ At(r.path).present /\ ~StatOk(At(r.path)) /\ r \in photos
              /\ \E x \in selections : x.photo = r.id
====
